---- MODULE Spec2Model ----
(***************************************************************************)
(* A model of picamserver.py: the StreamTee broadcaster and the TCP video *)
(* stream server that rebuilds it, the queue-based interruptible Timer,    *)
(* and the Timelapse scheduler with its floor-aligned capture ticks and    *)
(* primary/fallback storage targets.                                       *)
(***************************************************************************)
EXTENDS Integers, Sequences, FiniteSets, TLC

VARIABLES
  \* ---- TcpVideoStreamServer / StreamTee / TcpVideoStreamHandler ----
  srv,          \* "init" (constructed), "running" (after start), "stopped"
  keep_running, \* TcpVideoStreamServer.keep_running
  recording,    \* the camera is recording (start_recording .. stop_recording)
  outputs,      \* TcpVideoStreamServer.outputs
  teeStreams,   \* __streams of the StreamTee the camera currently writes to
  hpc,          \* per sink: where its handler thread stands
  broken,       \* sinks whose peer has gone: writing to them raises
  closed,       \* sinks whose wfile.closed is true
  received,     \* per sink: the chunks written to it, in order
  nWrites,      \* number of StreamTee.write calls made by the camera
  failedSinks,  \* history: sinks on which a write or flush has raised
  lastCall,     \* history: the StreamTee.write/flush call that has just returned
  \* ---- Timer, exercised on its own ----
  q,            \* number of items in Timer.q
  tpc,          \* the sleeping context: "idle" or "sleeping" (inside q.get)
  remaining,    \* time left of the sleep in progress
  lastSleep,    \* history: the sleep that returned last
  pendingIntr,  \* history: interrupt() was called and no sleep was cut short since
  cutShortRun,  \* history: sleeps cut short since the latest interrupt() call
  \* ---- __wait_until_next_capture / __floorTime, exercised on their own ----
  fNow,         \* the instant _now() returns, in ticks
  fInterval,    \* self.interval, in whole seconds
  fNext,        \* next_instant, in ticks (-1: not computed yet)
  fDelay,       \* delay, in ticks (-1: not computed yet)
  \* ---- Timelapse: storage targets and the files written ----
  root_folders,     \* Timelapse.root_folders
  fallback_folders, \* Timelapse.fallback_folders
  files,            \* the files that exist under the roots
  rootMode,         \* environment: what a write to each configured root runs into
  tickNow,          \* the instant the cycles are run at, in ticks
  nTicks,           \* capture-and-write cycles run so far
  lastTick,         \* history: what the most recent cycle attempted and wrote
  gen,              \* generate_filename called on its own: the latest call
  \* ---- Timelapse: the scheduler threads ----
  tlRunning,    \* Timelapse.keep_running
  clock,        \* the wall clock, in ticks
  thr,          \* per thread started by start(): where it stands in __run
  capLog,       \* history: the instant of every capture attempted, in order
  \* ---- PiCamServer.run and the handler threads' steps ----
  mpc,          \* where the main thread stands in PiCamServer.run
  camera,       \* the PiCamera object: "open" or "closed"
  hTee,         \* per sink: the streams of the StreamTee its handler has built
  shutLog,      \* history: the shutdown calls that have returned, in order
  \* ---- moveimages.py: FileMover.move_file ----
  mv            \* the source file, the destination files, and the call made

teeVars == <<srv, keep_running, recording, outputs, teeStreams, hpc,
             broken, closed, received, nWrites, failedSinks, lastCall>>

timerVars == <<q, tpc, remaining, lastSleep, pendingIntr, cutShortRun>>

floorVars == <<fNow, fInterval, fNext, fDelay>>

storeVars == <<root_folders, fallback_folders, files, rootMode, tickNow, nTicks, lastTick,
               gen>>

schedVars == <<tlRunning, clock, thr, capLog>>

runVars == <<mpc, camera, hTee, shutLog>>

moveVars == <<mv>>

vars == <<teeVars, timerVars, floorVars, moveVars, storeVars, schedVars, runVars>>

\* What the actions of one group leave alone.
notTeeVars == <<timerVars, floorVars, moveVars, storeVars, schedVars, runVars>>

notTimerVars == <<teeVars, floorVars, moveVars, storeVars, schedVars, runVars>>

notFloorVars == <<teeVars, timerVars, storeVars, schedVars, runVars, moveVars>>

notStoreVars == <<teeVars, timerVars, floorVars, moveVars, schedVars, runVars>>

notMoveVars == <<teeVars, timerVars, floorVars, storeVars, schedVars, runVars>>

\* The scheduler threads sleep on Timer.q and write files.
notSchedVars == <<teeVars, tpc, remaining, lastSleep, pendingIntr, cutShortRun,
                  floorVars, moveVars, root_folders, fallback_folders, rootMode, tickNow, nTicks,
                  gen, runVars>>

----------------------------------------------------------------------------
(* Bounds *)

MaxWrites == 2

\* Timer on its own: longest sleep, and most items Timer.q holds.
MaxSleep == 3

MaxQueue == 2

\* Clock resolution: ticks per second (an instant has a sub-second part).
TicksPerSecond == 2

\* __floorTime on its own: instants up to WindowSeconds after each base instant.
WindowSeconds == 6

\* Storage on its own: capture-and-write cycles run in a row.
MaxTicks == 1

\* Scheduler: the interval in seconds, the last clock tick, the captures begun.
SchedInterval == 1

MaxClock == 5

MaxCaptures == 2

\* The largest suffix among the files that exist before generate_filename is
\* called, and the number of calls followed.
MaxSuffix == 2

MaxCalls == 2

Sinks == {"c1", "c2", "c3"}

NoCall == [op |-> "none"]

----------------------------------------------------------------------------
(* StreamTee *)

\* All orders in which a Python set of sinks may be iterated.
Orders(S) ==
  {o \in [1..Cardinality(S) -> S] : \A i, j \in 1..Cardinality(S) : i # j => o[i] # o[j]}

\* s.write(b) raises when the peer is gone or the file object is closed.
SinkWriteRaises(s, brk, cls) == s \in brk \/ s \in cls

\* s.flush() raises under the same conditions.
SinkFlushRaises(s, brk, cls) == s \in brk \/ s \in cls

\* One loop iteration of StreamTee.write without the inner try around close:
\* an exception of s.close() leaves the handler and the loop.
WriteOneCloseUncaught(s, b, failC, st) ==
  IF ~SinkWriteRaises(s, st.broken, st.closed)
  THEN [st EXCEPT !.received[s] = Append(@, b)]
  ELSE [st EXCEPT !.streams = @ \ {s},
                  !.closed = @ \cup {s},
                  !.failed = @ \cup {s},
                  !.raised = (s \in failC)]

\* One loop iteration of StreamTee.write without any try: the exception of
\* s.write(b) leaves the loop.
WriteOneUncaught(s, b, failC, st) ==
  IF ~SinkWriteRaises(s, st.broken, st.closed)
  THEN [st EXCEPT !.received[s] = Append(@, b)]
  ELSE [st EXCEPT !.failed = @ \cup {s}, !.raised = TRUE]

\* One loop iteration that writes the chunk a second time after a success.
WriteOneTwice(s, b, failC, st) ==
  IF ~SinkWriteRaises(s, st.broken, st.closed)
  THEN [st EXCEPT !.received[s] = Append(Append(@, b), b)]
  ELSE [st EXCEPT !.streams = @ \ {s},
                  !.closed = @ \cup {s},
                  !.failed = @ \cup {s}]

\* One loop iteration that forgets to discard the failing sink.
WriteOneNoDiscard(s, b, failC, st) ==
  IF ~SinkWriteRaises(s, st.broken, st.closed)
  THEN [st EXCEPT !.received[s] = Append(@, b)]
  ELSE [st EXCEPT !.closed = @ \cup {s},
                  !.failed = @ \cup {s}]

\* One iteration of the loop of StreamTee.write for sink s:
\*   try: s.write(b)
\*   except Exception: self.__streams.discard(s); try: s.close() except Exception: pass
\* failC are the sinks whose close() raises; io's close() marks the object
\* closed also when it raises.
WriteOne(s, b, failC, st) ==
  IF ~SinkWriteRaises(s, st.broken, st.closed)
  THEN [st EXCEPT !.received[s] = Append(@, b)]
  ELSE [st EXCEPT !.streams = @ \ {s},
                  !.closed = @ \cup {s},
                  !.failed = @ \cup {s}]

\* for s in set(self.__streams): ... ; an uncaught exception ends the loop.
RECURSIVE WriteLoop(_, _, _, _)
WriteLoop(order, b, failC, st) ==
  IF order = <<>> \/ st.raised THEN st
  ELSE WriteLoop(Tail(order), b, failC, WriteOne(Head(order), b, failC, st))

\* One iteration of the loop of StreamTee.flush whose handler does not close.
FlushOneNoClose(s, failC, st) ==
  IF ~SinkFlushRaises(s, st.broken, st.closed)
  THEN st
  ELSE [st EXCEPT !.streams = @ \ {s},
                  !.failed = @ \cup {s}]

\* One iteration of the loop of StreamTee.flush for sink s.
FlushOne(s, failC, st) ==
  IF ~SinkFlushRaises(s, st.broken, st.closed)
  THEN st
  ELSE [st EXCEPT !.streams = @ \ {s},
                  !.closed = @ \cup {s},
                  !.failed = @ \cup {s}]

RECURSIVE FlushLoop(_, _, _)
FlushLoop(order, failC, st) ==
  IF order = <<>> \/ st.raised THEN st
  ELSE FlushLoop(Tail(order), failC, FlushOne(Head(order), failC, st))

\* The state a StreamTee call works on.
TeeState ==
  [streams |-> teeStreams, received |-> received, broken |-> broken,
   closed |-> closed, failed |-> {}, raised |-> FALSE]

\* StreamTee.__init__: self.__streams = set(streams), a copy.
StreamTeeInit(streams) == streams

----------------------------------------------------------------------------
(* Initial state: TcpVideoStreamServer.__init__ *)

TeeInit ==
  /\ srv = "init"
  /\ keep_running = FALSE
  /\ recording = FALSE
  /\ outputs = {}
  /\ teeStreams = {}
  /\ hpc = [s \in Sinks |-> "idle"]
  /\ broken = {}
  /\ closed = {}
  /\ received = [s \in Sinks |-> <<>>]
  /\ nWrites = 0
  /\ failedSinks = {}
  /\ lastCall = NoCall

\* TcpVideoStreamServer.start
ServerStart ==
  /\ srv = "init"
  /\ teeStreams' = StreamTeeInit(outputs)
  /\ recording' = TRUE
  /\ keep_running' = TRUE
  /\ srv' = "running"
  /\ UNCHANGED <<outputs, hpc, broken, closed, received, nWrites,
                 failedSinks>>
  /\ lastCall' = NoCall
  /\ UNCHANGED notTeeVars

\* TcpVideoStreamServer.stop
ServerStop ==
  /\ srv = "running"
  /\ keep_running' = FALSE
  /\ recording' = FALSE
  /\ srv' = "stopped"
  /\ UNCHANGED <<outputs, teeStreams, hpc, broken, closed, received,
                 nWrites, failedSinks>>
  /\ lastCall' = NoCall
  /\ UNCHANGED notTeeVars

\* _outputs_changed: camera.split_recording(StreamTee(self.outputs)) installs a
\* tee built from the outputs; PiCameraNotRecording is caught and nothing changes.
OutputsChanged(outs) == IF recording THEN StreamTeeInit(outs) ELSE teeStreams

\* A client connects: TcpVideoStreamHandler.handle calls add_output and enters
\* its wait loop.
AddOutput(s) ==
  /\ srv = "running"
  /\ hpc[s] = "idle"
  /\ outputs' = outputs \cup {s}
  /\ teeStreams' = OutputsChanged(outputs')
  /\ hpc' = [hpc EXCEPT ![s] = "loop"]
  /\ lastCall' = NoCall
  /\ UNCHANGED <<srv, keep_running, recording, broken, closed, received, nWrites,
                 failedSinks>>
  /\ UNCHANGED notTeeVars

\* handle's loop ends (while self.server.keep_running and not self.wfile.closed)
\* and finish calls remove_output.
RemoveOutput(s) ==
  /\ hpc[s] = "loop"
  /\ ~keep_running \/ s \in closed
  /\ outputs' = outputs \ {s}
  /\ teeStreams' = OutputsChanged(outputs')
  /\ hpc' = [hpc EXCEPT ![s] = "done"]
  /\ lastCall' = NoCall
  /\ UNCHANGED <<srv, keep_running, recording, broken, closed, received, nWrites,
                 failedSinks>>
  /\ UNCHANGED notTeeVars

\* The client's socket is closed externally.
Disconnect(s) ==
  /\ hpc[s] \notin {"idle", "done"}
  /\ s \notin broken
  /\ broken' = broken \cup {s}
  /\ UNCHANGED <<srv, keep_running, recording, outputs, teeStreams, hpc, closed, received, nWrites, failedSinks>>
  /\ lastCall' = NoCall
  /\ UNCHANGED notTeeVars

\* The sinks of S whose write (flush) raises in the current state.
WriteFailures(S) == {s \in S : SinkWriteRaises(s, broken, closed)}

FlushFailures(S) == {s \in S : SinkFlushRaises(s, broken, closed)}

\* The camera's encoder calls StreamTee.write(b) on the installed tee.
TeeWrite ==
  /\ recording
  /\ nWrites < MaxWrites
  /\ \E order \in Orders(teeStreams), failC \in SUBSET teeStreams :
       LET b == nWrites + 1
           st == WriteLoop(order, b, failC, TeeState)
       IN /\ teeStreams' = st.streams
          /\ received' = st.received
          /\ closed' = st.closed
          /\ failedSinks' = failedSinks \cup st.failed
          /\ nWrites' = b
          /\ lastCall' = [op |-> "write", b |-> b, snapshot |-> teeStreams,
                          wouldFail |-> WriteFailures(teeStreams),
                          closeFails |-> failC, failedBefore |-> failedSinks,
                          raised |-> st.raised, outputsBefore |-> outputs]
  /\ UNCHANGED <<srv, keep_running, recording, outputs, hpc, broken>>
  /\ UNCHANGED notTeeVars

\* The camera calls StreamTee.flush() on the installed tee.
TeeFlush ==
  /\ recording
  /\ \E order \in Orders(teeStreams), failC \in SUBSET teeStreams :
       LET st == FlushLoop(order, failC, TeeState)
       IN /\ teeStreams' = st.streams
          /\ closed' = st.closed
          /\ failedSinks' = failedSinks \cup st.failed
          /\ lastCall' = [op |-> "flush", b |-> 0, snapshot |-> teeStreams,
                          wouldFail |-> FlushFailures(teeStreams),
                          closeFails |-> failC, failedBefore |-> failedSinks,
                          raised |-> st.raised, outputsBefore |-> outputs]
  /\ UNCHANGED <<srv, keep_running, recording, outputs, hpc, broken,
                 received, nWrites>>
  /\ UNCHANGED notTeeVars

NextTee ==
  \/ ServerStart
  \/ ServerStop
  \/ \E s \in Sinks : AddOutput(s)
  \/ \E s \in Sinks : RemoveOutput(s)
  \/ \E s \in Sinks : Disconnect(s)
  \/ TeeWrite
  \/ TeeFlush

----------------------------------------------------------------------------
(* Timer *)

\* Timer.interrupt when it only notified a waiting context (a condition variable
\* without a flag): the signal is lost when nobody is waiting.
InterruptNotifyOnly(n, waiting) == IF waiting THEN n + 1 ELSE n

\* Timer.interrupt: self.q.put(None) on an unbounded queue.Queue.
Interrupt(n, waiting) == n + 1

\* q.get returns an item at once when the queue is not empty.
GetReturnsItem(n) == n > 0

TimerInit ==
  /\ q = 0
  /\ tpc = "idle"
  /\ remaining = 0
  /\ lastSleep = [seconds |-> 0, elapsed |-> 0, blocked |-> FALSE,
                  interrupted |-> FALSE, pending |-> FALSE]
  /\ pendingIntr = FALSE
  /\ cutShortRun = 0

\* Timer.sleep(seconds) is entered: q.get(timeout=seconds) returns at once with an
\* item, raises queue.Empty at once for a timeout of 0, or blocks.
SleepEnter(seconds) ==
  /\ tpc = "idle"
  /\ IF GetReturnsItem(q)
     THEN /\ q' = q - 1
          /\ lastSleep' = [seconds |-> seconds, elapsed |-> 0, blocked |-> FALSE,
                           interrupted |-> TRUE, pending |-> pendingIntr]
          /\ pendingIntr' = FALSE
          /\ cutShortRun' = cutShortRun + 1
          /\ UNCHANGED <<tpc, remaining>>
     ELSE IF seconds = 0
     THEN /\ lastSleep' = [seconds |-> 0, elapsed |-> 0, blocked |-> FALSE,
                           interrupted |-> FALSE, pending |-> pendingIntr]
          /\ UNCHANGED <<q, tpc, remaining, pendingIntr, cutShortRun>>
     ELSE /\ tpc' = "sleeping"
          /\ remaining' = seconds
          /\ lastSleep' = [seconds |-> seconds, elapsed |-> 0, blocked |-> TRUE,
                           interrupted |-> FALSE, pending |-> pendingIntr]
          /\ UNCHANGED <<q, pendingIntr, cutShortRun>>
  /\ UNCHANGED notTimerVars

\* A second passes while the context is blocked in q.get on an empty queue.
SleepSecond ==
  /\ tpc = "sleeping"
  /\ ~GetReturnsItem(q)
  /\ remaining > 0
  /\ remaining' = remaining - 1
  /\ lastSleep' = [lastSleep EXCEPT !.elapsed = @ + 1]
  /\ UNCHANGED <<q, tpc, pendingIntr, cutShortRun>>
  /\ UNCHANGED notTimerVars

\* q.get returns the item another context has put: the sleep was interrupted.
SleepInterrupted ==
  /\ tpc = "sleeping"
  /\ GetReturnsItem(q)
  /\ q' = q - 1
  /\ tpc' = "idle"
  /\ remaining' = 0
  /\ lastSleep' = [lastSleep EXCEPT !.interrupted = TRUE, !.pending = pendingIntr]
  /\ pendingIntr' = FALSE
  /\ cutShortRun' = cutShortRun + 1
  /\ UNCHANGED notTimerVars

\* q.get raises queue.Empty after the timeout; sleep swallows it.
SleepTimeout ==
  /\ tpc = "sleeping"
  /\ ~GetReturnsItem(q)
  /\ remaining = 0
  /\ tpc' = "idle"
  /\ lastSleep' = [lastSleep EXCEPT !.pending = pendingIntr]
  /\ UNCHANGED <<q, remaining, pendingIntr, cutShortRun>>
  /\ UNCHANGED notTimerVars

\* Another context calls Timer.interrupt().
TimerInterrupt ==
  /\ q < MaxQueue
  /\ q' = Interrupt(q, tpc = "sleeping")
  /\ pendingIntr' = TRUE
  /\ cutShortRun' = 0
  /\ UNCHANGED <<tpc, remaining, lastSleep>>
  /\ UNCHANGED notTimerVars

NextTimer ==
  \/ \E seconds \in 0..MaxSleep : SleepEnter(seconds)
  \/ SleepSecond
  \/ SleepInterrupted
  \/ SleepTimeout
  \/ TimerInterrupt

----------------------------------------------------------------------------
(* Timelapse.__floorTime and __wait_until_next_capture *)

\* timedelta.seconds of (dt - dt.min): the seconds since midnight.
DaySeconds == 86400

Max(a, b) == IF a >= b THEN a ELSE b

\* __floorTime(dt, delta) for an instant dt in ticks and delta in whole seconds:
\*   seconds = (dt.replace(tzinfo=None) - dt.min).seconds
\*   rounding = (seconds // roundTo) * roundTo
\*   return dt + timedelta(0, rounding - seconds, -dt.microsecond)
FloorTime(dt, delta) ==
  LET seconds == (dt \div TicksPerSecond) % DaySeconds
      rounding == (seconds \div delta) * delta
  IN dt + (rounding - seconds) * TicksPerSecond - (dt % TicksPerSecond)

\* next_instant when the interval is not added before flooring.
NextInstantNoInterval(now, interval) == FloorTime(now, interval)

\* next_instant = self.__floorTime(now + self.interval, self.interval)
NextInstant(now, interval) == FloorTime(now + interval * TicksPerSecond, interval)

\* delay = max(0, (next_instant - now).total_seconds())
Delay(now, interval) == Max(0, NextInstant(now, interval) - now)

\* Instants the function is exercised on: around midnight, noon and 23:00.
BaseSeconds == {0, 12 * 3600, 23 * 3600, DaySeconds - 3, 2 * DaySeconds - 3}

NowSamples ==
  {(base + s) * TicksPerSecond + f :
     base \in BaseSeconds, s \in 0..WindowSeconds, f \in 0..(TicksPerSecond - 1)}

\* Intervals in whole seconds; 7, 7 h and 25 h do not divide a day.
IntervalSamples == {1, 7, 60, 3600, 7 * 3600, DaySeconds, 25 * 3600}

FloorInit ==
  /\ fNow \in NowSamples
  /\ fInterval \in IntervalSamples
  /\ fNext = -1
  /\ fDelay = -1

\* __wait_until_next_capture up to the call of timer.sleep(delay).
ComputeNext ==
  /\ fNext = -1
  /\ fNext' = NextInstant(fNow, fInterval)
  /\ fDelay' = Delay(fNow, fInterval)
  /\ UNCHANGED <<fNow, fInterval>>
  /\ UNCHANGED notFloorVars

NextFloor == ComputeNext

\* The groups a specification does not exercise start in one fixed state.
FloorIdle ==
  /\ fNow = 0
  /\ fInterval = 1
  /\ fNext = -1
  /\ fDelay = -1

----------------------------------------------------------------------------
(* Timelapse: generate_filename, _write_to_file and the writes of one cycle *)

Primaries == {"usb1", "usb2"}

Fallbacks == {"sd1", "sd2"}

Images == {"jpegA", "jpegB"}

\* __calc_md5sum: the hex digest of the image bytes.
Md5Sum(img) == IF img = "jpegA" THEN "md5-A" ELSE "md5-B"

\* location.dawn / location.dusk of the date, as seconds since midnight.
Dawn == 7 * 3600 + 12 * 60

Dusk == 18 * 3600 + 45 * 60

\* _is_night when the comparisons included the boundaries.
IsNightInclusive(time) ==
  LET tod == time % (DaySeconds * TicksPerSecond)
  IN tod <= Dawn * TicksPerSecond \/ Dusk * TicksPerSecond <= tod

\* _is_night: time < dawn or dusk < time
IsNight(time) ==
  LET tod == time % (DaySeconds * TicksPerSecond)
  IN tod < Dawn * TicksPerSecond \/ Dusk * TicksPerSecond < tod

\* os.path.join(root_folder, subdir, file_name): the date directory, the night
\* directory, and the name with the time to the second, the digest and the suffix
\* (0: no suffix, n: "_n").
FilePath(root_folder, time, md5sum, suffix) ==
  [root |-> root_folder,
   date |-> (time \div TicksPerSecond) \div DaySeconds,
   night |-> IF IsNight(time) THEN "night" ELSE "",
   stamp |-> time \div TicksPerSecond,
   md5 |-> md5sum,
   suffix |-> suffix]

\* The loop of generate_filename when it did not look at the file system: the
\* unsuffixed path, whatever exists.
GenerateLoopOnce(root_folder, time, md5sum, suffix_int, suffix_str, filename, fs) ==
  FilePath(root_folder, time, md5sum, suffix_str)

\* The loop of generate_filename:
\*   while suffix_int == 0 or os.path.exists(filename):
\*     filename = <path with suffix_str>; suffix_int += 1; suffix_str = '_%d' % suffix_int
RECURSIVE GenerateLoop(_, _, _, _, _, _, _)
GenerateLoop(root_folder, time, md5sum, suffix_int, suffix_str, filename, fs) ==
  IF suffix_int = 0 \/ filename \in fs
  THEN GenerateLoop(root_folder, time, md5sum, suffix_int + 1, suffix_int + 1,
                    FilePath(root_folder, time, md5sum, suffix_str), fs)
  ELSE filename

\* generate_filename(root_folder, time, md5sum) on the file system fs.
GenerateFilename(root_folder, time, md5sum, fs) ==
  GenerateLoop(root_folder, time, md5sum, 0, 0,
               FilePath(root_folder, time, md5sum, 0), fs)

\* What a write to one root runs into: it goes through ("ok"); md5 or
\* generate_filename raises before filename is assigned ("early"); makedirs or
\* open raises after it ("late").
Modes == {"ok", "early", "late"}

\* One iteration of the loop of _write_to_file for root_folder; w is the state of
\* the call. The except clause logs filename: when no iteration has assigned it
\* yet, that raises UnboundLocalError out of _write_to_file.
WriteTarget(root_folder, kind, img, now, mode, w) ==
  LET filename == GenerateFilename(root_folder, now, Md5Sum(img), w.files)
  IN CASE mode = "ok" ->
            [w EXCEPT !.files = @ \cup {filename},
                      !.bound = TRUE,
                      !.log = Append(@, [root |-> root_folder, kind |-> kind,
                                         written |-> TRUE, file |-> filename])]
       [] mode = "late" ->
            [w EXCEPT !.success = FALSE,
                      !.bound = TRUE,
                      !.log = Append(@, [root |-> root_folder, kind |-> kind,
                                         written |-> FALSE, file |-> filename])]
       [] mode = "early" ->
            [w EXCEPT !.success = FALSE,
                      !.raised = ~w.bound,
                      !.log = Append(@, [root |-> root_folder, kind |-> kind,
                                         written |-> FALSE, file |-> filename])]

\* for root_folder in set(root_folders): ... ; an uncaught exception ends the loop.
RECURSIVE WriteTargets(_, _, _, _, _, _)
WriteTargets(order, kind, img, now, modes, w) ==
  IF order = <<>> \/ w.raised THEN w
  ELSE WriteTargets(Tail(order), kind, img, now, modes,
                    WriteTarget(Head(order), kind, img, now, modes[Head(order)], w))

\* _write_to_file(input, root_folders, now): success starts True, filename unbound.
WriteToFile(order, kind, img, now, modes, fs, log) ==
  WriteTargets(order, kind, img, now, modes,
               [files |-> fs, success |-> TRUE, bound |-> FALSE, raised |-> FALSE,
                log |-> log])

\* The fallback loop of __run, entered whatever the primaries did:
\*   for fallback_folder in self.fallback_folders:
\*     success = self._write_to_file(mem_stream, self.fallback_folders, now)
FallbackLoopAlways(passes, fOrder, img, now, modes, w) ==
  IF passes = 0 THEN w
  ELSE WriteToFile(fOrder, "fallback", img, now, modes, w.files, w.log)

\* The fallback loop of __run, with `passes` iterations left:
\*   for fallback_folder in self.fallback_folders:
\*     if success: break
\*     success = self._write_to_file(mem_stream, self.fallback_folders, now)
RECURSIVE FallbackLoop(_, _, _, _, _, _)
FallbackLoop(passes, fOrder, img, now, modes, w) ==
  IF passes = 0 \/ w.success \/ w.raised THEN w
  ELSE FallbackLoop(passes - 1, fOrder, img, now, modes,
                    WriteToFile(fOrder, "fallback", img, now, modes, w.files, w.log))

\* Lines 267-270 of __run: the primaries, then the fallback loop.
WriteCycle(pOrder, fOrder, img, now, modes, fs) ==
  LET p == WriteToFile(pOrder, "primary", img, now, modes, fs, <<>>)
  IN FallbackLoop(Len(fOrder), fOrder, img, now, modes, p)

NoTick == [done |-> FALSE]

\* No call of generate_filename on its own yet.
NoGen == [called |-> FALSE, calls |-> 0, issued |-> {}, before |-> {}]

\* The instants the cycle is run at on its own: 14:00:00 and 21:30:00.
TickInstants == {14 * 3600 * TicksPerSecond, (21 * 3600 + 30 * 60) * TicksPerSecond}

\* Timelapse.__init__ followed by add_root_folder / add_fallback_root_folder calls.
StoreInit ==
  /\ root_folders \in SUBSET Primaries
  /\ fallback_folders \in SUBSET Fallbacks
  /\ rootMode \in [root_folders \cup fallback_folders -> Modes]
  /\ files = {}
  /\ tickNow \in TickInstants
  /\ nTicks = 0
  /\ lastTick = NoTick
  /\ gen = NoGen

\* PiCamServer.run: one primary root and one fallback root; both writable.
StoreIdle ==
  /\ root_folders = {"usb1"}
  /\ fallback_folders = {"sd1"}
  /\ rootMode = [r \in {"usb1", "sd1"} |-> "ok"]
  /\ files = {}
  /\ tickNow = 0
  /\ nTicks = 0
  /\ lastTick = NoTick
  /\ gen = NoGen

\* PiCamServer.run: one primary root and one fallback root, in any condition.
StoreConfigured ==
  /\ root_folders = {"usb1"}
  /\ fallback_folders = {"sd1"}
  /\ rootMode \in [root_folders \cup fallback_folders -> Modes]
  /\ files = {}
  /\ tickNow = 0
  /\ nTicks = 0
  /\ lastTick = NoTick
  /\ gen = NoGen

\* One cycle of __run after a successful capture (lines 263-270): the image is
\* written to the primaries and, as the loop decides, to the fallbacks.
StoreTick ==
  /\ nTicks < MaxTicks
  /\ \E img \in Images,
        pOrder \in Orders(root_folders), fOrder \in Orders(fallback_folders) :
       LET w == WriteCycle(pOrder, fOrder, img, tickNow, rootMode, files)
       IN /\ files' = w.files
          /\ lastTick' = [done |-> TRUE, img |-> img, log |-> w.log,
                          success |-> w.success, raised |-> w.raised]
  /\ nTicks' = nTicks + 1
  /\ UNCHANGED <<root_folders, fallback_folders, rootMode, tickNow, gen>>
  /\ UNCHANGED notStoreVars

NextStore == StoreTick

----------------------------------------------------------------------------
(* Timelapse.generate_filename and _is_night, called on their own *)

\* The instants names are generated for: 14:00:00, 21:30:00, the tick before
\* dawn, dawn, dusk, the tick after dusk, and the tick after dusk a day later.
NameInstants ==
  {14 * 3600 * TicksPerSecond, (21 * 3600 + 30 * 60) * TicksPerSecond,
   Dawn * TicksPerSecond - 1, Dawn * TicksPerSecond,
   Dusk * TicksPerSecond, Dusk * TicksPerSecond + 1,
   (DaySeconds + Dusk) * TicksPerSecond + 1}

\* Files that may exist under the primary root before the first call: any of the
\* names of the 14:00:00 image, unsuffixed or suffixed.
NameUniverse ==
  {FilePath("usb1", 14 * 3600 * TicksPerSecond, "md5-A", k) : k \in 0..MaxSuffix}

\* One primary and one fallback root, and any of those files on disk.
StoreNamed ==
  /\ root_folders = {"usb1"}
  /\ fallback_folders = {"sd1"}
  /\ rootMode = [r \in {"usb1", "sd1"} |-> "ok"]
  /\ files \in SUBSET NameUniverse
  /\ tickNow = 0
  /\ nTicks = 0
  /\ lastTick = NoTick
  /\ gen = NoGen

\* generate_filename(root_folder, time, md5sum) is called (line 235).
GenerateCall ==
  /\ gen.calls < MaxCalls
  /\ \E root_folder \in root_folders \cup fallback_folders,
        time \in NameInstants, img \in Images :
       LET filename == GenerateFilename(root_folder, time, Md5Sum(img), files)
       IN gen' = [called |-> TRUE, calls |-> gen.calls + 1,
                  root |-> root_folder, time |-> time, md5 |-> Md5Sum(img),
                  name |-> filename,
                  issued |-> gen.issued \cup {filename}, before |-> gen.issued]
  /\ UNCHANGED <<root_folders, fallback_folders, files, rootMode, tickNow, nTicks,
                 lastTick>>
  /\ UNCHANGED notStoreVars

\* open(filename, 'wb') creates the file of the name just generated (line 239).
NameCreated ==
  /\ gen.called
  /\ files' = files \cup {gen.name}
  /\ gen' = [called |-> FALSE, calls |-> gen.calls, issued |-> gen.issued,
             before |-> gen.before]
  /\ UNCHANGED <<root_folders, fallback_folders, rootMode, tickNow, nTicks, lastTick>>
  /\ UNCHANGED notStoreVars

NextName ==
  \/ GenerateCall
  \/ NameCreated

----------------------------------------------------------------------------
(* Timelapse: start, stop and the loop of __run *)

\* The threads that start() calls create, in this order.
Threads == {1, 2}

\* deadline: when the sleep in progress times out; now: the instant the capture
\* in progress was started at (line 263).
Unborn == [pc |-> "unborn", deadline |-> 0, now |-> 0]

\* The thread's position after __wait_until_next_capture has called
\* timer.sleep(delay) at the instant now.
Sleeping(now) ==
  [pc |-> "sleeping", deadline |-> now + Delay(now, SchedInterval), now |-> 0]

\* The thread has left __run: "exited" by the loop test, "died" by an exception.
Ended(how) == [pc |-> how, deadline |-> 0, now |-> 0]

SchedInit ==
  /\ tlRunning = FALSE
  /\ clock = 0
  /\ thr = [t \in Threads |-> Unborn]
  /\ capLog = <<>>

\* Timelapse.start: keep_running = True and a new thread enters __run, whose
\* first statement is __wait_until_next_capture.
Start ==
  /\ \E t \in Threads :
       /\ thr[t].pc = "unborn"
       /\ \A u \in Threads : u < t => thr[u].pc # "unborn"
       /\ thr' = [thr EXCEPT ![t] = Sleeping(clock)]
  /\ tlRunning' = TRUE
  /\ UNCHANGED <<clock, capLog, q, files, lastTick>>
  /\ UNCHANGED notSchedVars

\* Timelapse.stop: keep_running = False, then timer.interrupt().
Stop ==
  /\ q < MaxQueue
  /\ tlRunning' = FALSE
  /\ q' = Interrupt(q, \E t \in Threads : thr[t].pc = "sleeping")
  /\ UNCHANGED <<clock, thr, capLog, files, lastTick>>
  /\ UNCHANGED notSchedVars

\* The clock advances by one tick; a thread whose q.get can return (an item is
\* there, or its timeout has run out) returns first.
ClockTick ==
  /\ clock < MaxClock
  /\ \A t \in Threads :
       thr[t].pc = "sleeping" => ~GetReturnsItem(q) /\ thr[t].deadline > clock
  /\ clock' = clock + 1
  /\ UNCHANGED <<tlRunning, thr, capLog, q, files, lastTick>>
  /\ UNCHANGED notSchedVars

\* timer.sleep returns in thread t, with an item of the queue or by timeout, and
\* the loop of __run tests keep_running: it takes now and starts the capture, or
\* it ends.
Wake(t) ==
  /\ thr[t].pc = "sleeping"
  /\ GetReturnsItem(q) \/ clock >= thr[t].deadline
  /\ tlRunning => Len(capLog) < MaxCaptures
  /\ q' = IF GetReturnsItem(q) THEN q - 1 ELSE q
  /\ IF tlRunning
     THEN /\ thr' = [thr EXCEPT ![t] = [pc |-> "capturing", deadline |-> 0,
                                             now |-> clock]]
          /\ capLog' = Append(capLog, [now |-> clock, cut |-> GetReturnsItem(q)])
     ELSE /\ thr' = [thr EXCEPT ![t] = Ended("exited")]
          /\ UNCHANGED capLog
  /\ UNCHANGED <<tlRunning, clock, files, lastTick>>
  /\ UNCHANGED notSchedVars

\* camera.capture raises in thread t: nothing catches it, the thread ends.
CaptureRaises(t) ==
  /\ thr[t].pc = "capturing"
  /\ thr' = [thr EXCEPT ![t] = Ended("died")]
  /\ UNCHANGED <<tlRunning, clock, capLog, q, files, lastTick>>
  /\ UNCHANGED notSchedVars

\* camera.capture returns in thread t: the image taken at thr[t].now is
\* written (lines 267-270) and __wait_until_next_capture sleeps again; an
\* exception out of _write_to_file ends the thread.
CaptureDone(t) ==
  /\ thr[t].pc = "capturing"
  /\ \E img \in Images,
        pOrder \in Orders(root_folders), fOrder \in Orders(fallback_folders) :
       LET w == WriteCycle(pOrder, fOrder, img, thr[t].now, rootMode, files)
       IN /\ files' = w.files
          /\ lastTick' = [done |-> TRUE, img |-> img, log |-> w.log,
                          success |-> w.success, raised |-> w.raised]
          /\ thr' = [thr EXCEPT ![t] = IF w.raised THEN Ended("died")
                                                    ELSE Sleeping(clock)]
  /\ UNCHANGED <<tlRunning, clock, capLog, q>>
  /\ UNCHANGED notSchedVars

NextSched ==
  \/ Start
  \/ Stop
  \/ ClockTick
  \/ \E t \in Threads : Wake(t)
  \/ \E t \in Threads : CaptureRaises(t)
  \/ \E t \in Threads : CaptureDone(t)

----------------------------------------------------------------------------
(* PiCamServer.run, with the handler threads taken one statement at a time *)

\* The clients that connect while PiCamServer.run is followed.
Clients == {"c1", "c2"}

\* The state PiCamServer.run starts from: the camera is open, the server and the
\* time lapse are constructed.
RunInit ==
  /\ mpc = "created"
  /\ camera = "open"
  /\ hTee = [s \in Sinks |-> {}]
  /\ shutLog = <<>>

\* video_server.start() (line 325)
RunVideoStart ==
  /\ mpc = "created"
  /\ teeStreams' = StreamTeeInit(outputs)
  /\ recording' = TRUE
  /\ keep_running' = TRUE
  /\ srv' = "running"
  /\ mpc' = "video_started"
  /\ UNCHANGED <<outputs, hpc, broken, closed, received, nWrites, failedSinks,
                 lastCall>>
  /\ UNCHANGED <<timerVars, floorVars, moveVars, storeVars, schedVars, camera, hTee, shutLog>>

\* timelapse.start() (line 328): Timelapse.start
RunTimelapseStart ==
  /\ mpc = "video_started"
  /\ \E t \in Threads :
       /\ thr[t].pc = "unborn"
       /\ \A u \in Threads : u < t => thr[u].pc # "unborn"
       /\ thr' = [thr EXCEPT ![t] = Sleeping(clock)]
  /\ tlRunning' = TRUE
  /\ mpc' = "serving"
  /\ UNCHANGED <<clock, capLog>>
  /\ UNCHANGED <<teeVars, timerVars, floorVars, moveVars, storeVars, camera, hTee, shutLog>>

\* KeyboardInterrupt in the loop of lines 331-332: control goes to finally.
RunKeyboardInterrupt ==
  /\ mpc = "serving"
  /\ mpc' = "finally"
  /\ UNCHANGED <<teeVars, timerVars, floorVars, moveVars, storeVars, schedVars,
                 camera, hTee, shutLog>>

\* timelapse.stop() when stop only cleared the flag and did not interrupt the
\* timer.
RunTimelapseStopNoInterrupt ==
  /\ mpc = "finally"
  /\ tlRunning' = FALSE
  /\ mpc' = "tl_stopped"
  /\ shutLog' = Append(shutLog, "timelapse.stop")
  /\ UNCHANGED <<clock, thr, capLog>>
  /\ UNCHANGED <<teeVars, timerVars, floorVars, moveVars, storeVars, camera, hTee>>

\* timelapse.stop() (line 336): Timelapse.stop
RunTimelapseStop ==
  /\ mpc = "finally"
  /\ tlRunning' = FALSE
  /\ q' = Interrupt(q, \E t \in Threads : thr[t].pc = "sleeping")
  /\ mpc' = "tl_stopped"
  /\ shutLog' = Append(shutLog, "timelapse.stop")
  /\ UNCHANGED <<clock, thr, capLog>>
  /\ UNCHANGED <<teeVars, tpc, remaining, lastSleep, pendingIntr, cutShortRun,
                 floorVars, moveVars, storeVars, camera, hTee>>

\* video_server.stop() (line 337): TcpVideoStreamServer.stop
RunVideoStop ==
  /\ mpc = "tl_stopped"
  /\ keep_running' = FALSE
  /\ recording' = FALSE
  /\ srv' = "stopped"
  /\ mpc' = "vs_stopped"
  /\ shutLog' = Append(shutLog, "video_server.stop")
  /\ UNCHANGED <<outputs, teeStreams, hpc, broken, closed, received, nWrites,
                 failedSinks, lastCall>>
  /\ UNCHANGED <<timerVars, floorVars, moveVars, storeVars, schedVars, camera, hTee>>

\* video_server.shutdown() (line 338): serve_forever has ended already.
RunVideoShutdown ==
  /\ mpc = "vs_stopped"
  /\ mpc' = "shut"
  /\ UNCHANGED <<teeVars, timerVars, floorVars, moveVars, storeVars, schedVars,
                 camera, hTee, shutLog>>

\* camera.close() when it came right after timelapse.stop(), before the video
\* server is stopped.
RunCameraCloseEarly ==
  /\ mpc = "tl_stopped"
  /\ camera' = "closed"
  /\ mpc' = "closed"
  /\ shutLog' = Append(shutLog, "camera.close")
  /\ UNCHANGED <<teeVars, timerVars, floorVars, moveVars, storeVars, schedVars, hTee>>

\* camera.close() (line 339)
RunCameraClose ==
  /\ mpc = "shut"
  /\ camera' = "closed"
  /\ mpc' = "closed"
  /\ shutLog' = Append(shutLog, "camera.close")
  /\ UNCHANGED <<teeVars, timerVars, floorVars, moveVars, storeVars, schedVars, hTee>>

\* handle, line 86, then add_output, line 125: self.outputs.add(output)
HandlerAdd(s) ==
  /\ srv = "running"
  /\ hpc[s] = "idle"
  /\ outputs' = outputs \cup {s}
  /\ hpc' = [hpc EXCEPT ![s] = "added"]
  /\ UNCHANGED <<srv, keep_running, recording, teeStreams, broken, closed,
                 received, nWrites, failedSinks, lastCall>>
  /\ UNCHANGED notTeeVars

\* _outputs_changed, line 134: StreamTee(self.outputs) is built from the outputs
\* of this moment and camera.split_recording is entered with it.
HandlerBuildTee(s) ==
  /\ hpc[s] \in {"added", "removed"}
  /\ hTee' = [hTee EXCEPT ![s] = StreamTeeInit(outputs)]
  /\ hpc' = [hpc EXCEPT ![s] = IF hpc[s] = "added" THEN "splitting"
                                                   ELSE "unsplitting"]
  /\ UNCHANGED <<srv, keep_running, recording, outputs, teeStreams, broken,
                 closed, received, nWrites, failedSinks, lastCall>>
  /\ UNCHANGED <<timerVars, floorVars, moveVars, storeVars, schedVars, mpc, camera, shutLog>>

\* camera.split_recording(tee): the camera writes to tee from now on; when it is
\* not recording the call raises PiCameraNotRecording and nothing changes.
SplitRecording(tee) == IF recording /\ camera = "open" THEN tee ELSE teeStreams

\* split_recording returns (or raises) in the handler of s: add_output returns
\* into the wait loop of handle, remove_output returns into finish.
HandlerSplitReturns(s) ==
  /\ hpc[s] \in {"splitting", "unsplitting"}
  /\ teeStreams' = SplitRecording(hTee[s])
  /\ hTee' = [hTee EXCEPT ![s] = {}]
  /\ hpc' = [hpc EXCEPT ![s] = IF hpc[s] = "splitting" THEN "loop" ELSE "done"]
  /\ UNCHANGED <<srv, keep_running, recording, outputs, broken, closed,
                 received, nWrites, failedSinks, lastCall>>
  /\ UNCHANGED <<timerVars, floorVars, moveVars, storeVars, schedVars, mpc, camera, shutLog>>

\* The wait loop of handle ends and finish returns without remove_output having
\* discarded the sink.
HandlerFinishNoDiscard(s) ==
  /\ hpc[s] = "loop"
  /\ ~keep_running \/ s \in closed
  /\ hpc' = [hpc EXCEPT ![s] = "removed"]
  /\ UNCHANGED <<srv, keep_running, recording, outputs, teeStreams, broken, closed,
                 received, nWrites, failedSinks, lastCall>>
  /\ UNCHANGED notTeeVars

\* The wait loop of handle ends (line 87), finish calls remove_output, line 129:
\* self.outputs.discard(output)
HandlerFinish(s) ==
  /\ hpc[s] = "loop"
  /\ ~keep_running \/ s \in closed
  /\ outputs' = outputs \ {s}
  /\ hpc' = [hpc EXCEPT ![s] = "removed"]
  /\ UNCHANGED <<srv, keep_running, recording, teeStreams, broken, closed,
                 received, nWrites, failedSinks, lastCall>>
  /\ UNCHANGED notTeeVars

NextRun ==
  \/ RunVideoStart
  \/ RunTimelapseStart
  \/ RunKeyboardInterrupt
  \/ RunTimelapseStop
  \/ RunVideoStop
  \/ RunVideoShutdown
  \/ RunCameraClose
  \/ \E s \in Clients : HandlerAdd(s)
  \/ \E s \in Clients : HandlerBuildTee(s)
  \/ \E s \in Clients : HandlerSplitReturns(s)
  \/ \E s \in Clients : HandlerFinish(s)
  \/ ClockTick
  \/ \E t \in Threads : Wake(t)
  \/ \E t \in Threads : CaptureRaises(t)
  \/ \E t \in Threads : CaptureDone(t)

\* The server with its handler threads taken one statement at a time, while the
\* camera broadcasts and clients go away.
NextHandlers ==
  \/ ServerStart
  \/ ServerStop
  \/ \E s \in Clients : HandlerAdd(s)
  \/ \E s \in Clients : HandlerBuildTee(s)
  \/ \E s \in Clients : HandlerSplitReturns(s)
  \/ \E s \in Clients : HandlerFinish(s)
  \/ \E s \in Clients : Disconnect(s)
  \/ TeeWrite

\* A handler thread is scheduled: its calls return and its wait loop, which
\* polls once a second, sees a condition that stays true.
HandlersRun ==
  \A s \in Clients :
    /\ WF_vars(HandlerBuildTee(s))
    /\ WF_vars(HandlerSplitReturns(s))
    /\ WF_vars(HandlerFinish(s))

\* A started thread is scheduled: a q.get that can return returns, a capture in
\* progress ends.
ThreadsRun ==
  \A t \in Threads :
    WF_vars(Wake(t)) /\ WF_vars(CaptureRaises(t) \/ CaptureDone(t))

----------------------------------------------------------------------------
(* moveimages.py: FileMover.move_file and get_md5sum *)

\* The destination directories, and the lists of them move_file is called with.
DstDirs == {"d1", "d2"}

DstLists == {<<>>, <<"d1">>, <<"d1", "d2">>}

\* What a file can hold: one of two images, or part of one.
Contents == {"imgA", "imgB", "partial"}

NoFile == [exists |-> FALSE, content |-> "none"]

FileOf(content) == [exists |-> TRUE, content |-> content]

\* hashlib.md5 of a file's bytes, as a hex digest.
FileMd5(content) ==
  CASE content = "imgA" -> "0cc1"
    [] content = "imgB" -> "92eb"
    [] OTHER -> "d41d"

\* What MD5SUM_REGEX takes out of a basename it matches: the pattern is
\* _md5-[0-9A-Fa-f]32[_.], one hex digit followed by the characters 32.
NameSum == "a32"

\* get_md5sum(path, try_from_basename); tagged: the basename matches MD5SUM_REGEX.
GetMd5Sum(file, tagged, try_from_basename) ==
  IF try_from_basename /\ tagged THEN NameSum ELSE FileMd5(file.content)

\* What the calls of one move_file run into: reading the source for its digest,
\* os.stat, and per destination reading the existing file, shutil.copy2 (which
\* may raise with or without a partial file left, or write other bytes) and
\* reading the copy.
MoveEnvs ==
  [srcHash : {"ok", "raises"}, stat : {"ok", "raises"},
   pre : [DstDirs -> {"ok", "raises"}],
   copy : [DstDirs -> {"ok", "raises", "raises_partial", "corrupt"}],
   post : [DstDirs -> {"ok", "raises"}]]

\* The loop body of move_file when a digest that does not match did not clear
\* all_ok.
MoveOneNoVerify(dir, src, src_md5sum, env, st) ==
  IF env.copy[dir] \in {"raises", "raises_partial"}
  THEN [st EXCEPT !.all_ok = FALSE, !.log[dir] = "copy_failed"]
  ELSE [st EXCEPT !.dst[dir] = FileOf(IF env.copy[dir] = "corrupt" THEN "partial"
                                                                    ELSE src.content),
                  !.log[dir] = "copied"]

\* The loop body of move_file (lines 152-187) for the destination directory dir.
MoveOne(dir, src, src_md5sum, env, st) ==
  LET old == st.dst[dir]
      new == FileOf(IF env.copy[dir] = "corrupt" THEN "partial" ELSE src.content)
  IN IF old.exists /\ env.pre[dir] = "ok" /\ GetMd5Sum(old, FALSE, FALSE) = src_md5sum
     THEN [st EXCEPT !.log[dir] = "kept_existing"]
     ELSE IF env.copy[dir] \in {"raises", "raises_partial"}
     THEN [st EXCEPT !.all_ok = FALSE,
                     !.dst[dir] = IF env.copy[dir] = "raises_partial"
                                  THEN FileOf("partial") ELSE old,
                     !.log[dir] = "copy_failed"]
     ELSE IF env.post[dir] = "raises"
     THEN [st EXCEPT !.all_ok = FALSE, !.dst[dir] = new, !.log[dir] = "hash_failed"]
     ELSE IF src_md5sum # GetMd5Sum(new, FALSE, FALSE)
     THEN [st EXCEPT !.all_ok = FALSE, !.dst[dir] = new, !.log[dir] = "mismatch"]
     ELSE [st EXCEPT !.dst[dir] = new, !.log[dir] = "copied"]

\* for dst_dir_path in dst_dir_paths: ...
RECURSIVE MoveLoop(_, _, _, _, _)
MoveLoop(dirs, src, src_md5sum, env, st) ==
  IF dirs = <<>> THEN st
  ELSE MoveLoop(Tail(dirs), src, src_md5sum, env,
                MoveOne(Head(dirs), src, src_md5sum, env, st))

\* A source file with one of the images, under a name that MD5SUM_REGEX matches
\* or not, and destination directories that hold a file of the same name or not.
MoveInit ==
  mv \in [src : [exists : {TRUE}, content : {"imgA", "imgB"}, tagged : BOOLEAN],
          dirs : DstLists,
          dst : [DstDirs -> {NoFile} \cup {FileOf(c) : c \in Contents}],
          called : {FALSE},
          outcome : {"none"},
          log : {[d \in DstDirs |-> "none"]}]

\* No file to move.
MoveIdle ==
  mv = [src |-> NoFile, dirs |-> <<>>, dst |-> [d \in DstDirs |-> NoFile],
        called |-> FALSE, outcome |-> "none", log |-> [d \in DstDirs |-> "none"]]

\* FileMover.move_file(src_dir_path, filename, dst_dir_paths), lines 133-194.
MoveFile ==
  /\ ~mv.called
  /\ mv.src.exists
  /\ \E env \in MoveEnvs :
       LET src_md5sum == GetMd5Sum(mv.src, mv.src.tagged, TRUE)
           st == MoveLoop(mv.dirs, mv.src, src_md5sum, env,
                          [dst |-> mv.dst, all_ok |-> TRUE, log |-> mv.log])
       IN mv' = IF mv.dirs = <<>>
                THEN [mv EXCEPT !.called = TRUE, !.outcome = "value_error"]
                ELSE IF ~mv.src.tagged /\ env.srcHash = "raises"
                THEN [mv EXCEPT !.called = TRUE, !.outcome = "md5_error"]
                ELSE IF env.stat = "raises"
                THEN [mv EXCEPT !.called = TRUE, !.outcome = "raised"]
                ELSE [mv EXCEPT !.called = TRUE, !.dst = st.dst, !.log = st.log,
                                !.src.exists = ~st.all_ok,
                                !.outcome = IF st.all_ok THEN "removed" ELSE "kept"]
  /\ UNCHANGED notMoveVars

NextMove == MoveFile

----------------------------------------------------------------------------
(* Specifications *)

Init == TeeInit /\ TimerInit /\ FloorIdle /\ StoreIdle /\ SchedInit /\ RunInit /\ MoveIdle

InitFloor == TeeInit /\ TimerInit /\ FloorInit /\ StoreIdle /\ SchedInit /\ RunInit /\ MoveIdle

InitSched == TeeInit /\ TimerInit /\ FloorIdle /\ StoreConfigured /\ SchedInit /\ RunInit /\ MoveIdle

InitName == TeeInit /\ TimerInit /\ FloorIdle /\ StoreNamed /\ SchedInit /\ RunInit /\ MoveIdle

InitStore == TeeInit /\ TimerInit /\ FloorIdle /\ StoreInit /\ SchedInit /\ RunInit /\ MoveIdle

SpecTee == Init /\ [][NextTee]_vars

SpecTimer == Init /\ [][NextTimer]_vars

SpecFloor == InitFloor /\ [][NextFloor]_vars

SpecStore == InitStore /\ [][NextStore]_vars

SpecSched == InitSched /\ [][NextSched]_vars

SpecHandlers == Init /\ [][NextHandlers]_vars

SpecHandlersFair == Init /\ [][NextHandlers]_vars /\ HandlersRun

InitMove ==
  TeeInit /\ TimerInit /\ FloorIdle /\ StoreIdle /\ SchedInit /\ RunInit /\ MoveInit

SpecMove == InitMove /\ [][NextMove]_vars

SpecName == InitName /\ [][NextName]_vars

SpecRun == Init /\ [][NextRun]_vars

SpecRunFair == Init /\ [][NextRun]_vars /\ ThreadsRun

----------------------------------------------------------------------------
(* Claims about the stream multiplexer, checked under SpecTee *)

Last(seq) == seq[Len(seq)]

\* C1: a StreamTee.write(b) delivers b to every sink of the tee whose own write
\* does not raise, whatever subset of the other sinks fails.
C1_FailureIsolation ==
  lastCall.op = "write" =>
    \A s \in lastCall.snapshot \ lastCall.wouldFail :
      /\ received[s] # <<>>
      /\ Last(received[s]) = lastCall.b

\* A write has just returned in which one sink failed and two others did not.
C1_Witness ==
  /\ lastCall.op = "write"
  /\ lastCall.wouldFail # {}
  /\ Cardinality(lastCall.snapshot \ lastCall.wouldFail) >= 2

\* C2: StreamTee.write and StreamTee.flush return normally, and every sink whose
\* write or flush raised is out of the tee's set and closed once the call has
\* returned, also when the sink's close() raised.
C2_FailureNotRaised ==
  lastCall.op \in {"write", "flush"} =>
    /\ ~lastCall.raised
    /\ \A s \in lastCall.wouldFail : s \notin teeStreams /\ s \in closed

\* A write has just returned in which a sink failed and its close() raised too,
\* while another sink was served.
C2_Witness ==
  /\ lastCall.op = "write"
  /\ lastCall.wouldFail \cap lastCall.closeFails # {}
  /\ lastCall.snapshot \ lastCall.wouldFail # {}

\* C3: a sink on which a write or flush has failed is in the sink set of no
\* later broadcast, also through a tee rebuilt from the server's outputs.
C3_NeverAddedBack ==
  lastCall.op = "write" => lastCall.snapshot \cap lastCall.failedBefore = {}

\* C4: with three clients connected and all in the tee, a broadcast in which
\* exactly one sink fails reaches the other two with the same chunk, and when it
\* has returned the server's outputs set has two members.
C4_ActiveCountDrops ==
  ( /\ lastCall.op = "write"
    /\ Cardinality(lastCall.outputsBefore) = 3
    /\ lastCall.snapshot = lastCall.outputsBefore
    /\ Cardinality(lastCall.wouldFail) = 1 )
  => /\ \A s \in lastCall.snapshot \ lastCall.wouldFail :
          received[s] # <<>> /\ Last(received[s]) = lastCall.b
     /\ Cardinality(outputs) = 2

\* C5: the chunks written to a sink are chunks passed to write, in the order of
\* the write calls and none of them twice.
C5_InOrderPerSink ==
  \A s \in Sinks :
    /\ \A i \in 1..Len(received[s]) : received[s][i] \in 1..nWrites
    /\ \A i, j \in 1..Len(received[s]) : i < j => received[s][i] < received[s][j]

\* A sink has received two chunks from two different tees while a later-joined
\* sink has received only the second one.
C5_Witness ==
  \E s, u \in Sinks : received[s] = <<1, 2>> /\ received[u] = <<2>>

----------------------------------------------------------------------------
(* Claims about the Timer, checked under SpecTimer *)

\* C6: a sleep that returns while an interrupt() call made before or during it
\* has not yet cut a sleep short returns because of that interrupt and not by
\* timing out, also when nobody was waiting at the time of the call; and a
\* sleep in progress never outlasts its duration.
C6_InterruptNotMissed ==
  /\ (tpc = "idle" /\ lastSleep.pending) => lastSleep.interrupted
  /\ tpc = "sleeping" => lastSleep.elapsed + remaining = lastSleep.seconds

\* interrupt() was called with no context waiting, and the next sleep of a
\* positive duration returned at once without blocking.
C6_Witness ==
  /\ tpc = "idle"
  /\ lastSleep.pending
  /\ lastSleep.interrupted
  /\ ~lastSleep.blocked
  /\ lastSleep.seconds > 0

\* C7: interrupt() is a single-slot signal: however often it is called with no
\* sleep in between, at most one sleep is cut short before the next call.
C7_SingleSlot == cutShortRun <= 1

----------------------------------------------------------------------------
(* Claims about the next capture tick, checked under SpecFloor *)

\* C8: the next tick is strictly later than now, falls on a whole second that is
\* a multiple of the interval counted from midnight of its day, and the delay
\* is strictly positive and at most one interval.
C8_NextTick ==
  fNext # -1 =>
    /\ fNext > fNow
    /\ fNext % TicksPerSecond = 0
    /\ ((fNext \div TicksPerSecond) % DaySeconds) % fInterval = 0
    /\ fDelay = fNext - fNow
    /\ fDelay > 0
    /\ fDelay <= fInterval * TicksPerSecond

\* The tick was computed for an instant shortly after 23:00 with a sub-second
\* part and an interval of 7 h, which does not divide a day: it is midnight.
C8_Witness ==
  /\ fNext # -1
  /\ fInterval = 7 * 3600
  /\ fNow \div TicksPerSecond >= 23 * 3600
  /\ fNow \div TicksPerSecond < DaySeconds
  /\ fNow % TicksPerSecond # 0
  /\ fNext = DaySeconds * TicksPerSecond

----------------------------------------------------------------------------
(* Claims about the scheduler's ticks, checked under SpecSched *)

\* The interval slot an instant floors to.
Slot(now) == FloorTime(now, SchedInterval)

\* C9: captures are attempted in strictly increasing floored-time order: of any
\* two captures attempted, the later one's instant floors to a later slot.
C9_OneCapturePerSlot ==
  \A i, j \in 1..Len(capLog) :
    i < j => Slot(capLog[i].now) < Slot(capLog[j].now)

----------------------------------------------------------------------------
(* Claims about the writes of one cycle, checked under SpecStore *)

\* The roots the cycle attempted, and wrote a file to, as primary or fallback.
Attempted(kind) ==
  {lastTick.log[i].root : i \in {k \in 1..Len(lastTick.log) : lastTick.log[k].kind = kind}}

Written(kind) ==
  {lastTick.log[i].root :
     i \in {k \in 1..Len(lastTick.log) :
              lastTick.log[k].kind = kind /\ lastTick.log[k].written}}

\* C10: a cycle attempts every primary root, and when a write to at least one
\* primary root succeeded it attempts no fallback root.
C10_FallbackOnlyIfAllPrimariesFailed ==
  lastTick.done =>
    /\ Attempted("primary") = root_folders
    /\ Written("primary") # {} => Attempted("fallback") = {}

\* C11: the success value of a cycle that returned, with a primary root
\* configured, is true exactly when at least one primary or fallback root
\* received the file.
C11_SuccessIffSomeWrite ==
  lastTick.done /\ ~lastTick.raised /\ root_folders # {} =>
    (lastTick.success <=> Written("primary") \cup Written("fallback") # {})

\* The primary writes of a cycle all fail and the fallback writes all succeed.
PrimaryFailsFallbackWorks ==
  /\ root_folders # {}
  /\ fallback_folders # {}
  /\ \A r \in root_folders : rootMode[r] # "ok"
  /\ \A r \in fallback_folders : rootMode[r] = "ok"

\* C12: when the primary write fails and the fallback write succeeds, the cycle
\* reports success and the file exists under the fallback root only, once.
C12_FallbackTakesOver ==
  lastTick.done /\ PrimaryFailsFallbackWorks =>
    /\ ~lastTick.raised
    /\ lastTick.success
    /\ \A r \in root_folders : {f \in files : f.root = r} = {}
    /\ \A r \in fallback_folders : Cardinality({f \in files : f.root = r}) = 1

----------------------------------------------------------------------------
(* Claims about the scheduler's loop and shutdown, checked under SpecSched *)

\* C13: a camera.capture call that raises does not end the loop: the thread
\* writes nothing for that cycle and goes on to sleep until the next instant.
C13_CaptureFailureSurvived ==
  [][\A t \in Threads :
       CaptureRaises(t) => thr'[t].pc = "sleeping" /\ files' = files]_vars

\* timelapse.stop() of PiCamServer.run has returned.
Stopped == Len(shutLog) >= 1

\* No thread is inside __run.
AllEnded == \A t \in Threads : thr[t].pc \in {"unborn", "exited", "died"}

\* C14: after stop() on the started scheduler a sleep in progress can return at
\* once (an item is in the queue for it), no wake starts a capture any more, and
\* the loop thread ends without the clock having to reach its deadline.
C14_StopExitsPromptly ==
  /\ [](Stopped => \A t \in Threads :
                     thr[t].pc = "sleeping" => GetReturnsItem(q))
  /\ [][Stopped => \A t \in Threads :
                     thr'[t].pc = "capturing" => thr[t].pc = "capturing"]_vars
  /\ (Stopped ~> AllEnded)

\* stop() was called while the loop thread slept, and the thread has left the
\* loop before its deadline.
C14_Witness ==
  /\ Stopped
  /\ thr[1].pc = "exited"
  /\ capLog = <<>>
  /\ clock < Delay(0, SchedInterval)

----------------------------------------------------------------------------
(* Claims about PiCamServer.run's shutdown, checked under SpecRun *)

\* The shutdown calls in the order the claim gives.
ShutdownOrder == <<"timelapse.stop", "video_server.stop", "camera.close">>

\* C15: the shutdown calls return in the order timelapse.stop, video_server.stop,
\* camera.close; the camera is closed only when both stops have returned, and a
\* finally block that has run through has made all three calls.
C15_ShutdownInOrder ==
  /\ \E n \in 0..3 : shutLog = SubSeq(ShutdownOrder, 1, n)
  /\ camera = "closed" => ~tlRunning /\ ~keep_running /\ ~recording /\ Len(shutLog) = 3
  /\ mpc = "closed" => shutLog = ShutdownOrder
  /\ mpc \in {"created", "video_started", "serving"} => shutLog = <<>>

\* The finally block has run through after both subsystems were started.
C15_Witness ==
  /\ mpc = "closed"
  /\ camera = "closed"
  /\ thr[1].pc # "unborn"
  /\ srv = "stopped"

\* C19: when the camera is closed no scheduler thread is inside its capture and
\* write, and no handler thread is inside split_recording.
C19_NothingInFlightAtClose ==
  camera = "closed" =>
    /\ \A t \in Threads : thr[t].pc # "capturing"
    /\ \A s \in Sinks : hpc[s] \notin {"splitting", "unsplitting"}

\* C20: a scheduler thread is never inside camera.capture while a handler thread
\* is inside camera.split_recording.
C20_CaptureExcludesSplit ==
  ~ /\ \E t \in Threads : thr[t].pc = "capturing"
    /\ \E s \in Sinks : hpc[s] \in {"splitting", "unsplitting"}

----------------------------------------------------------------------------
(* Claims about concurrent registration, checked under SpecHandlers *)

\* Every add_output and remove_output call has returned.
HandlersQuiet == \A s \in Sinks : hpc[s] \in {"idle", "loop", "done"}

\* C18: once the concurrent add_output and remove_output calls have returned
\* while the camera records, no registered sink is missing from the installed
\* tee: every sink of outputs that has not been closed is among its streams.
C18_NoSinkLost ==
  recording /\ HandlersQuiet => (outputs \ closed) \subseteq teeStreams

----------------------------------------------------------------------------
(* Claims about generated names, checked under SpecName *)

\* The time of day of the latest call's instant, in ticks.
GenTimeOfDay == gen.time % (DaySeconds * TicksPerSecond)

\* C16: an instant is night iff it is before dawn or after dusk, dawn and dusk
\* themselves are day, and the generated path has the night segment iff the
\* instant is night; 14:00:00 gives none and 21:30:00 gives one.
C16_NightClassification ==
  gen.called =>
    /\ gen.name.night \in {"night", ""}
    /\ gen.name.night = "night" <=>
         (GenTimeOfDay < Dawn * TicksPerSecond \/ GenTimeOfDay > Dusk * TicksPerSecond)
    /\ GenTimeOfDay \in {Dawn * TicksPerSecond, Dusk * TicksPerSecond} =>
         gen.name.night = ""
    /\ GenTimeOfDay = 14 * 3600 * TicksPerSecond => gen.name.night = ""
    /\ GenTimeOfDay = (21 * 3600 + 30 * 60) * TicksPerSecond => gen.name.night = "night"

\* A name was generated for the instant of dusk, and it has no night segment.
C16_Witness ==
  /\ gen.called
  /\ GenTimeOfDay = Dusk * TicksPerSecond
  /\ gen.name.night = ""

\* C17: the name returned is the path of the call's root, instant and digest
\* with the smallest suffix (0: none) whose file does not exist; it names no
\* existing file, and as long as the files of the names issued before exist it
\* is none of those names.
C17_SmallestFreeSuffix ==
  gen.called =>
    /\ gen.name = FilePath(gen.root, gen.time, gen.md5, gen.name.suffix)
    /\ gen.name \notin files
    /\ \A k \in 0..(gen.name.suffix - 1) :
         FilePath(gen.root, gen.time, gen.md5, k) \in files
    /\ gen.before \subseteq files => gen.name \notin gen.before

\* A second call for the same image, with the unsuffixed path on disk from the
\* start: _1 was issued and created before, and _2 is returned.
C17_Witness ==
  /\ gen.called
  /\ gen.name.suffix = 2
  /\ gen.before = {FilePath(gen.root, gen.time, gen.md5, 1)}
  /\ gen.before \subseteq files

----------------------------------------------------------------------------
(* Further claims about the writes of one cycle, checked under SpecStore *)

\* C21: a failing write to one root is caught: no exception leaves
\* _write_to_file, and each call attempts every root it was given, whichever
\* root fails and whichever comes first.
C21_WriteFailureNotFatal ==
  lastTick.done =>
    /\ ~lastTick.raised
    /\ Attempted("primary") = root_folders
    /\ Attempted("fallback") \in {{}, fallback_folders}

\* The number of times the cycle attempted the root r.
Attempts(r) == Cardinality({k \in 1..Len(lastTick.log) : lastTick.log[k].root = r})

\* C22: a cycle attempts each root, primary or fallback, at most once, and so it
\* creates at most one file under any root.
C22_NoRetryWithinTick ==
  lastTick.done =>
    \A r \in root_folders \cup fallback_folders :
      /\ Attempts(r) <= 1
      /\ Cardinality({f \in files : f.root = r}) <= 1

----------------------------------------------------------------------------
(* Claims about a sink's life, checked under SpecHandlersFair *)

\* The handler of s has discarded s from outputs.
Removed(s) == hpc[s] \in {"removed", "unsplitting", "done"}

\* C23: a sink is in outputs from its handler's add_output to its remove_output
\* and at no other time: it enters outputs only on accept, it is never in
\* outputs again once removed, and once a failed broadcast has closed it or the
\* server was stopped, its handler leaves the wait loop and removes it.
C23_SinkLifecycle ==
  /\ [](\A s \in Sinks : s \in outputs <=> hpc[s] \in {"added", "splitting", "loop"})
  /\ [][\A s \in Sinks :
          /\ (s \in outputs' /\ s \notin outputs) => hpc[s] = "idle"
          /\ Removed(s) => Removed(s)' /\ s \notin outputs']_vars
  /\ \A s \in Clients :
       (hpc[s] # "idle" /\ (s \in closed \/ srv = "stopped")) ~> Removed(s)

\* A failed broadcast closed the sink of c1 while the server was running, and
\* its handler has removed it.
C23_Witness ==
  /\ "c1" \in closed
  /\ "c1" \in failedSinks
  /\ keep_running
  /\ hpc["c1"] = "done"
  /\ "c1" \notin outputs

----------------------------------------------------------------------------
(* A further claim about the scheduler's wakes, checked under SpecSched *)

\* C24: every capture follows a sleep that ran for its full delay: none follows
\* a sleep that returned with an item of the timer's queue.
C24_NoCaptureOnInterrupt ==
  \A i \in 1..Len(capLog) : ~capLog[i].cut

----------------------------------------------------------------------------
(* A claim about the file mover, checked under SpecMove *)

\* The destination directories of the call.
CallDirs == {mv.dirs[i] : i \in 1..Len(mv.dirs)}

\* C25: move_file removes the source only when every destination directory of
\* the call holds a file with the digest of the source's bytes, one that was
\* there with that digest or one that was copied and read back with it; when for
\* some destination the copy, the digest of the copy or its comparison failed,
\* or when the source's digest could not be had, the source stays.
C25_SourceKeptUnlessAllVerified ==
  mv.called =>
    /\ ~mv.src.exists =>
         /\ CallDirs # {}
         /\ \A d \in CallDirs :
              /\ mv.dst[d].exists
              /\ FileMd5(mv.dst[d].content) = FileMd5(mv.src.content)
              /\ mv.log[d] \in {"kept_existing", "copied"}
    /\ (\E d \in CallDirs : mv.log[d] \in {"copy_failed", "hash_failed", "mismatch"})
         => mv.src.exists
    /\ mv.outcome \in {"value_error", "md5_error", "raised", "kept"} => mv.src.exists

\* The source was removed after one destination had the file already and the
\* other got a copy that read back with the source's digest.
C25_Witness ==
  /\ mv.called
  /\ ~mv.src.exists
  /\ mv.log["d1"] = "kept_existing"
  /\ mv.log["d2"] = "copied"

====
